---- MODULE Spec2Model ----
(***************************************************************************)
(* Model of backend/server.js: the startup sequence (configuration check,  *)
(* connect, ping, inspectSchema, app.listen) and the two request handlers  *)
(* GET /api/search and GET /api/health, run against a MySQL server whose   *)
(* catalog is fixed for a behaviour and whose calls may fail.              *)
(*                                                                         *)
(* Strings (column names, query words, cell values) are sequences of       *)
(* one-character strings, so that trim() and toLowerCase() are computed.   *)
(* Every await of the source is one step of the model; the code between    *)
(* two awaits belongs to the step of the first.                            *)
(***************************************************************************)
EXTENDS Integers, Sequences, FiniteSets, TLC

\* ------------------------------------------------------------------ bounds
\* number of requests that may be in flight at the same time
MaxSlots == 2
\* number of failures the database server may inject in one behaviour
MaxFaults == 2
\* the same, for the pool specification
PoolFaults == 4

\* --------------------------------------------------------- program constants
ConnectionLimit == 5
CandidateLimit == 50
FallbackLimit == 25

\* ------------------------------------------------------------------ strings
UpperAlpha ==
  <<"A","B","C","D","E","F","G","H","I","J","K","L","M",
    "N","O","P","Q","R","S","T","U","V","W","X","Y","Z">>
LowerAlpha ==
  <<"a","b","c","d","e","f","g","h","i","j","k","l","m",
    "n","o","p","q","r","s","t","u","v","w","x","y","z">>

\* a cell holding SQL NULL, and the value of a missing property of a row
Null == <<"<null>">>
Undefined == <<"<undefined>">>

LowerChar(c) ==
  IF \E i \in 1..26 : UpperAlpha[i] = c
  THEN LowerAlpha[CHOOSE i \in 1..26 : UpperAlpha[i] = c]
  ELSE c

\* String.prototype.toLowerCase
ToLowerCase(s) == [i \in 1..Len(s) |-> LowerChar(s[i])]

RECURSIVE TrimStart(_)
TrimStart(s) == IF s # <<>> /\ Head(s) = " " THEN TrimStart(Tail(s)) ELSE s

RECURSIVE TrimEnd(_)
TrimEnd(s) ==
  IF s # <<>> /\ s[Len(s)] = " " THEN TrimEnd(SubSeq(s, 1, Len(s) - 1)) ELSE s

\* String.prototype.trim
Trim(s) == TrimEnd(TrimStart(s))

\* the word read without trim()
QueryWordUntrimmed(raw) == IF raw = Undefined THEN <<>> ELSE raw

\* (req.query.word || '').toString().trim()
QueryWord(raw) == IF raw = Undefined THEN <<>> ELSE Trim(raw)

\* Boolean(v) for the values a cell or a missing property can have
Truthy(v) == v # <<>> /\ v # Null /\ v # Undefined

\* Array.prototype.includes
Includes(seq, x) == \E i \in 1..Len(seq) : seq[i] = x

Take(seq, n) == SubSeq(seq, 1, IF Len(seq) < n THEN Len(seq) ELSE n)

\* ------------------------------------------------------------- vocabularies
WORD_COLUMNS ==
  << <<"w","o","r","d">>, <<"t","e","r","m">>, <<"l","e","m","m","a">>,
     <<"h","e","a","d","w","o","r","d">>, <<"e","n","t","r","y">>,
     <<"n","a","m","e">> >>
DEF_COLUMNS ==
  << <<"d","e","f","i","n","i","t","i","o","n">>, <<"m","e","a","n","i","n","g">>,
     <<"g","l","o","s","s">>, <<"d","e","s","c","r","i","p","t","i","o","n">>,
     <<"e","x","p","l","a","n","a","t","i","o","n">> >>
EX_COLUMNS ==
  << <<"e","x","a","m","p","l","e">>, <<"u","s","a","g","e">>,
     <<"s","e","n","t","e","n","c","e">>, <<"s","a","m","p","l","e","s">> >>

SystemDatabases == {"information_schema", "mysql", "performance_schema", "sys"}

\* ------------------------------------------------------ the database server
\* column names as the server stores them
F_Word == <<"W","o","r","d">>
F_word == <<"w","o","r","d">>
F_definition == <<"d","e","f","i","n","i","t","i","o","n">>
F_Example == <<"E","x","a","m","p","l","e">>
F_name == <<"n","a","m","e">>
F_term == <<"t","e","r","m">>
F_gloss == <<"g","l","o","s","s">>
F_description == <<"d","e","s","c","r","i","p","t","i","o","n">>
F_id == <<"i","d">>

V_ab == <<"a","b">>
V_AB == <<"A","B">>
V_cd == <<"c","d">>
V_zz == <<"z","z">>
V_d1 == <<"d","1">>
V_e1 == <<"e","1">>
V_g1 == <<"g","1">>

\* a lexical server: a system schema whose help table looks lexical, a
\* dictionary schema with mixed-case column names, and an application schema
\* whose glossary has two word-vocabulary columns
LexicalServer ==
  [ dbs    |-> <<"mysql", "lexdb", "appdb">>,
    tables |-> [d \in {"mysql", "lexdb", "appdb"} |->
                 CASE d = "mysql" -> <<"help">>
                   [] d = "lexdb" -> <<"words", "tags">>
                   [] d = "appdb" -> <<"glossary">>],
    fields |-> [t \in {<<"mysql","help">>, <<"lexdb","words">>,
                       <<"lexdb","tags">>, <<"appdb","glossary">>} |->
                 CASE t = <<"mysql","help">> -> <<F_name, F_description>>
                   [] t = <<"lexdb","words">> -> <<F_Word, F_definition, F_Example>>
                   [] t = <<"lexdb","tags">> -> <<F_name>>
                   [] t = <<"appdb","glossary">> -> <<F_term, F_name, F_gloss>>],
    rows   |-> [t \in {<<"mysql","help">>, <<"lexdb","words">>,
                       <<"lexdb","tags">>, <<"appdb","glossary">>} |->
                 CASE t = <<"mysql","help">> ->
                        << (F_name :> V_ab @@ F_description :> V_d1) >>
                   [] t = <<"lexdb","words">> ->
                        << (F_Word :> V_ab @@ F_definition :> V_d1 @@ F_Example :> Null),
                           (F_Word :> V_AB @@ F_definition :> <<>> @@ F_Example :> V_e1) >>
                   [] t = <<"lexdb","tags">> ->
                        << (F_name :> V_zz) >>
                   [] t = <<"appdb","glossary">> ->
                        << (F_term :> V_ab @@ F_name :> V_zz @@ F_gloss :> V_g1),
                           (F_term :> V_zz @@ F_name :> V_cd @@ F_gloss :> Null) >>] ]

\* a server none of whose tables has a word-vocabulary column
PlainServer ==
  [ dbs    |-> <<"sys", "appdb", "emptydb">>,
    tables |-> [d \in {"sys", "appdb", "emptydb"} |->
                 CASE d = "sys" -> <<>>
                   [] d = "appdb" -> <<"logs">>
                   [] d = "emptydb" -> <<>>],
    fields |-> [t \in {<<"appdb","logs">>} |-> <<F_id, F_description>>],
    rows   |-> [t \in {<<"appdb","logs">>} |->
                 << (F_id :> V_ab @@ F_description :> V_d1) >>] ]

\* a server with the single table words(word, definition)
SmallServer ==
  [ dbs    |-> <<"information_schema", "lexdb">>,
    tables |-> [d \in {"information_schema", "lexdb"} |->
                 CASE d = "information_schema" -> <<>>
                   [] d = "lexdb" -> <<"words">>],
    fields |-> [t \in {<<"lexdb","words">>} |-> <<F_word, F_definition>>],
    rows   |-> [t \in {<<"lexdb","words">>} |->
                 << (F_word :> V_ab @@ F_definition :> V_d1) >>] ]

\* the environment of the process: DB_HOST, DB_USER, DB_NAME
Env(host, user, name) == [DB_HOST |-> host, DB_USER |-> user, DB_NAME |-> name]

\* the deployments: a server and the environment the process is started in
Deployments ==
  { <<LexicalServer, Env("h", "u", "")>>,
    <<LexicalServer, Env("h", "u", "lexdb")>>,
    <<LexicalServer, Env("h", "u", "nodb")>>,
    <<LexicalServer, Env("h", "u", "mysql")>>,
    <<LexicalServer, Env("", "u", "")>>,
    <<LexicalServer, Env("h", "", "lexdb")>>,
    <<PlainServer, Env("h", "u", "")>>,
    <<SmallServer, Env("h", "u", "")>>,
    <<SmallServer, Env("h", "u", "mysql")>> }

\* the word parameter of a request: absent, empty, blank, or a word
RawWords ==
  { Undefined, <<>>, <<" ", " ">>, <<" ", "A", "b", " ">>, V_cd, V_zz }

\* the message of an error raised by the database driver
DbErrorText == "ER_DB_FAILURE"

\* ------------------------------------------------------------- SQL requests
NotSystem(d) == d \notin SystemDatabases

\* SHOW DATABASES, as the list of row.Database
ShowDatabases(srv) == srv.dbs

\* SHOW TABLES FROM `db` is an error when the schema does not exist
DatabaseExists(srv, db) == Includes(srv.dbs, db)

\* SHOW TABLES FROM `db`, as the list of row[tableKey]
ShowTables(srv, db) == srv.tables[db]

\* DESCRIBE `db`.`table`, as the list of row.Field
Describe(srv, db, table) == srv.fields[<<db, table>>]

\* the stored column an identifier names: identifiers match ignoring case
ResolveColumn(srv, db, table, col) ==
  CHOOSE f \in { srv.fields[<<db, table>>][i] :
                   i \in 1..Len(srv.fields[<<db, table>>]) } :
    ToLowerCase(f) = ToLowerCase(col)

\* SELECT * FROM `db`.`table` WHERE LOWER(`col`) = LOWER(?) LIMIT limit
SelectRows(srv, db, table, col, word, limit) ==
  LET f == ResolveColumn(srv, db, table, col)
      Match(row) == row[f] # Null /\ ToLowerCase(row[f]) = ToLowerCase(word)
  IN  Take(SelectSeq(srv.rows[<<db, table>>], Match), limit)

\* ------------------------------------------------------------ inspectSchema
\* (DB_NAME ? [DB_NAME] : dbNames).filter(not a system schema)
FilteredDbNames(dbName, dbNames) ==
  SelectSeq(IF dbName # "" THEN <<dbName>> ELSE dbNames, NotSystem)

\* desc.map((c) => c.Field.toLowerCase())
LowerCols(desc) == [i \in 1..Len(desc) |-> ToLowerCase(desc[i])]

\* VOCAB.some((c) => cols.includes(c))
HasAny(vocab, cols) == \E i \in 1..Len(vocab) : Includes(cols, vocab[i])

\* VOCAB.find((c) => cols.includes(c))
FindFirst(vocab, cols) ==
  IF HasAny(vocab, cols)
  THEN vocab[CHOOSE i \in 1..Len(vocab) :
               /\ Includes(cols, vocab[i])
               /\ \A j \in 1..(i - 1) : ~Includes(cols, vocab[j])]
  ELSE Undefined

\* VOCAB.filter((c) => cols.includes(c))
FilterPresent(vocab, cols) ==
  LET Present(c) == Includes(cols, c) IN SelectSeq(vocab, Present)

\* a table taken as a candidate for its word column alone
IsCandidateWordOnly(cols) == HasAny(WORD_COLUMNS, cols)

\* hasWord && (hasDef || hasEx)
IsCandidate(cols) ==
  HasAny(WORD_COLUMNS, cols) /\ (HasAny(DEF_COLUMNS, cols) \/ HasAny(EX_COLUMNS, cols))

\* a candidate recorded with the whole definition and example vocabularies
CandidateOfVocabulary(db, table, cols) ==
  [ db |-> db, table |-> table,
    wordCol |-> FindFirst(WORD_COLUMNS, cols),
    defCols |-> DEF_COLUMNS,
    exCols  |-> EX_COLUMNS,
    cols    |-> cols ]

\* the object pushed on inspectionSummary.candidates
CandidateOf(db, table, cols) ==
  [ db |-> db, table |-> table,
    wordCol |-> FindFirst(WORD_COLUMNS, cols),
    defCols |-> FilterPresent(DEF_COLUMNS, cols),
    exCols  |-> FilterPresent(EX_COLUMNS, cols),
    cols    |-> cols ]

\* where the two nested for-of loops stand after table ti of database di:
\* the next table, else the table listing of the next database, else the end
LoopNext(dbs, di, tables, ti) ==
  IF ti < Len(tables) THEN [pc |-> "describe", di |-> di, ti |-> ti + 1]
  ELSE IF di < Len(dbs) THEN [pc |-> "tables", di |-> di + 1, ti |-> 0]
  ELSE [pc |-> "end", di |-> di, ti |-> ti]

\* -------------------------------------------------------------------- state
VARIABLES
  server,             \* the catalog and rows of the MySQL server
  env,                \* process.env: DB_HOST, DB_USER, DB_NAME
  faultsLeft,         \* failures the server may still inject
  poolFree,           \* connections of the pool that can be handed out
  inspectionSummary,  \* the in-memory cache: databases, candidates
  listening,          \* app.listen has been called
  startup,            \* position and locals of the startup sequence
  req                 \* the requests in flight, by slot

vars == <<server, env, faultsLeft, poolFree, inspectionSummary, listening,
          startup, req>>

Slots == 1..MaxSlots

IdleRequest ==
  [ kind |-> "none", pc |-> "idle", raw |-> Undefined, word |-> <<>>,
    conn |-> FALSE, ci |-> 0, dbs |-> <<>>, di |-> 0, tables |-> <<>>,
    ti |-> 0, wcol |-> Undefined, results |-> <<>>,
    status |-> 0, body |-> [none |-> TRUE],
    \* history of the request
    acquired |-> FALSE, candQueries |-> 0, fbQueries |-> 0, fallback |-> FALSE,
    failedCands |-> {}, selected |-> {},
    localErrors |-> {}, fatal |-> "" ]

InitStartup ==
  [ pc |-> "config", conn |-> FALSE, dbs |-> <<>>, di |-> 0, tables |-> <<>>,
    ti |-> 0,
    \* history of the startup sequence
    attempts |-> 0, inspectCalls |-> 0, caught |-> "", failedStep |-> "",
    failedDescribes |-> {} ]

InitWith(budget) ==
  /\ \E d \in Deployments : server = d[1] /\ env = d[2]
  /\ faultsLeft = budget
  /\ poolFree = ConnectionLimit
  /\ inspectionSummary = [databases |-> <<>>, candidates |-> <<>>]
  /\ listening = FALSE
  /\ startup = InitStartup
  /\ req = [s \in Slots |-> IdleRequest]

Init == InitWith(MaxFaults)

\* the outcomes of a call to the server: it succeeds, or it fails while the
\* server may still inject a failure
Outcomes == IF faultsLeft > 0 THEN {TRUE, FALSE} ELSE {TRUE}

Spend(ok) == faultsLeft' = IF ok THEN faultsLeft ELSE faultsLeft - 1

\* SHOW TABLES FROM a schema the server does not have always fails
TableListOutcomes(db) == IF DatabaseExists(server, db) THEN Outcomes ELSE {FALSE}

\* ------------------------------------------------------------------ startup
\* app.listen called at module load, before the startup function has run
ConfigCheckListenFirst ==
  /\ startup.pc = "config"
  /\ IF env.DB_HOST = "" \/ env.DB_USER = ""
     THEN /\ startup' = [startup EXCEPT !.pc = "exited"]
          /\ UNCHANGED listening
     ELSE /\ startup' = [startup EXCEPT !.pc = "connect", !.attempts = @ + 1]
          /\ listening' = TRUE
  /\ UNCHANGED <<server, env, faultsLeft, poolFree, inspectionSummary, req>>

\* if (!DB_HOST || !DB_USER) process.exit(1); otherwise the pool is created
\* and the startup function enters its try block
ConfigCheck ==
  /\ startup.pc = "config"
  /\ IF env.DB_HOST = "" \/ env.DB_USER = ""
     THEN startup' = [startup EXCEPT !.pc = "exited"]
     ELSE startup' = [startup EXCEPT !.pc = "connect", !.attempts = @ + 1]
  /\ UNCHANGED <<server, env, faultsLeft, poolFree, inspectionSummary,
                 listening, req>>

\* catch (e) { console.error(...) } followed by app.listen(PORT)
CatchAndListen(st, step) ==
  /\ startup' = [st EXCEPT !.pc = "listening", !.caught = DbErrorText,
                           !.failedStep = step, !.dbs = <<>>, !.di = 0,
                           !.tables = <<>>, !.ti = 0]
  /\ listening' = TRUE

\* const conn = await pool.getConnection()
StartConnect ==
  /\ startup.pc = "connect"
  /\ poolFree > 0
  /\ \E ok \in Outcomes :
       /\ Spend(ok)
       /\ IF ok
          THEN /\ startup' = [startup EXCEPT !.pc = "ping", !.conn = TRUE]
               /\ poolFree' = poolFree - 1
               /\ UNCHANGED listening
          ELSE /\ CatchAndListen(startup, "connect")
               /\ UNCHANGED poolFree
  /\ UNCHANGED <<server, env, inspectionSummary, req>>

\* await conn.ping(); conn.release(); then inspectSchema() is called, which
\* runs up to its first await
StartPing ==
  /\ startup.pc = "ping"
  /\ \E ok \in Outcomes :
       /\ Spend(ok)
       /\ IF ok
          THEN /\ startup' = [startup EXCEPT !.pc = "acquire", !.conn = FALSE,
                                             !.inspectCalls = @ + 1]
               /\ poolFree' = poolFree + 1
               /\ UNCHANGED listening
          ELSE \* the connection is not released on this path
               /\ CatchAndListen(startup, "ping")
               /\ UNCHANGED poolFree
  /\ UNCHANGED <<server, env, inspectionSummary, req>>

\* inspectSchema: const conn = await pool.getConnection()
InspectAcquire ==
  /\ startup.pc = "acquire"
  /\ poolFree > 0
  /\ \E ok \in Outcomes :
       /\ Spend(ok)
       /\ IF ok
          THEN /\ startup' = [startup EXCEPT !.pc = "databases", !.conn = TRUE]
               /\ poolFree' = poolFree - 1
               /\ UNCHANGED listening
          ELSE /\ CatchAndListen(startup, "acquire")
               /\ UNCHANGED poolFree
  /\ UNCHANGED <<server, env, inspectionSummary, req>>

\* the end of inspectSchema's try block, its finally, and app.listen
InspectEnd(st, candidates) ==
  /\ inspectionSummary' = [databases |-> st.dbs, candidates |-> candidates]
  /\ startup' = [st EXCEPT !.pc = "listening", !.conn = FALSE, !.dbs = <<>>,
                           !.di = 0, !.tables = <<>>, !.ti = 0]
  /\ poolFree' = poolFree + 1
  /\ listening' = TRUE

\* a query of inspectSchema threw outside the per-table try: finally
\* releases, the startup function catches and listens
InspectThrow(step) ==
  /\ CatchAndListen([startup EXCEPT !.conn = FALSE], step)
  /\ poolFree' = poolFree + 1
  /\ UNCHANGED inspectionSummary

\* continue inspectSchema from loop position p
InspectGoto(st, p, candidates) ==
  IF p.pc = "end"
  THEN InspectEnd(st, candidates)
  ELSE /\ startup' = [st EXCEPT !.pc = p.pc, !.di = p.di, !.ti = p.ti]
       /\ inspectionSummary' = [inspectionSummary EXCEPT !.candidates = candidates]
       /\ UNCHANGED <<poolFree, listening>>

\* const [dbs] = await conn.query('SHOW DATABASES')
InspectShowDatabases ==
  /\ startup.pc = "databases"
  /\ \E ok \in Outcomes :
       /\ Spend(ok)
       /\ IF ok
          THEN LET dbs == FilteredDbNames(env.DB_NAME, ShowDatabases(server))
                   st  == [startup EXCEPT !.dbs = dbs]
               IN  InspectGoto(st, LoopNext(dbs, 0, <<>>, 0),
                               inspectionSummary.candidates)
          ELSE InspectThrow("databases")
  /\ UNCHANGED <<server, env, req>>

\* const [tables] = await conn.query(`SHOW TABLES FROM \`${db}\``)
InspectShowTables ==
  /\ startup.pc = "tables"
  /\ LET db == startup.dbs[startup.di] IN
     \E ok \in TableListOutcomes(db) :
       /\ Spend(ok \/ ~DatabaseExists(server, db))
       /\ IF ok
          THEN LET tables == ShowTables(server, db)
                   st     == [startup EXCEPT !.tables = tables]
               IN  InspectGoto(st, LoopNext(startup.dbs, startup.di, tables, 0),
                               inspectionSummary.candidates)
          ELSE InspectThrow("tables")
  /\ UNCHANGED <<server, env, req>>

\* const [desc] = await conn.query(`DESCRIBE ...`) in its try/catch, and the
\* push of the candidate
InspectDescribe ==
  /\ startup.pc = "describe"
  /\ LET db    == startup.dbs[startup.di]
         table == startup.tables[startup.ti]
         next  == LoopNext(startup.dbs, startup.di, startup.tables, startup.ti)
     IN
     \E ok \in Outcomes :
       /\ Spend(ok)
       /\ IF ok
          THEN LET cols == LowerCols(Describe(server, db, table)) IN
               InspectGoto(startup, next,
                 IF IsCandidate(cols)
                 THEN Append(inspectionSummary.candidates, CandidateOf(db, table, cols))
                 ELSE inspectionSummary.candidates)
          ELSE InspectGoto([startup EXCEPT !.failedDescribes = @ \cup {<<db, table>>}],
                           next, inspectionSummary.candidates)
  /\ UNCHANGED <<server, env, req>>

StartupNext ==
  \/ ConfigCheck
  \/ StartConnect
  \/ StartPing
  \/ InspectAcquire
  \/ InspectShowDatabases
  \/ InspectShowTables
  \/ InspectDescribe

\* ------------------------------------------------------------- /api/search
\* row[c]: the property of the row object whose key is exactly c
RowGet(row, c) == IF c \in DOMAIN row THEN row[c] ELSE Undefined

\* cols.map((c) => row[c]).filter(Boolean)
PickValues(cols, row) ==
  SelectSeq([i \in 1..Len(cols) |-> RowGet(row, cols[i])], Truthy)

\* the object pushed on results for one row
ResultOf(db, table, wordCol, defCols, exCols, row) ==
  [ source |-> <<db, table>>,
    word |-> RowGet(row, wordCol),
    definitions |-> PickValues(defCols, row),
    examples |-> PickValues(exCols, row),
    row |-> row ]

\* for (const row of rows) results.push(...) in the candidate phase
CandidateResults(cand, rows) ==
  [i \in 1..Len(rows) |->
     ResultOf(cand.db, cand.table, cand.wordCol, cand.defCols, cand.exCols, rows[i])]

\* for (const row of rows) results.push(...) in the fallback phase
FallbackResults(db, table, wordCol, rows) ==
  [i \in 1..Len(rows) |->
     ResultOf(db, table, wordCol, DEF_COLUMNS, EX_COLUMNS, rows[i])]

\* results.unshift in place of results.push: later tables come first
PushAllFront(results, more) == more \o results

\* results.push applied to each mapped row, in row order
PushAll(results, more) == results \o more

\* the locals of a handler are dead once it has returned
ClearLocals(r) ==
  [r EXCEPT !.ci = 0, !.dbs = <<>>, !.di = 0, !.tables = <<>>, !.ti = 0,
            !.wcol = Undefined, !.results = <<>>]

\* if (results.length === 0) 404 else 200, as [status, body]
SearchReply(word, results) ==
  IF Len(results) = 0
  THEN [status |-> 404,
        body |-> [word |-> word, results |-> <<>>, message |-> "Not found"]]
  ELSE [status |-> 200,
        body |-> [word |-> word, count |-> Len(results), results |-> results]]

\* the response of the catch block of the search handler
SearchFailure ==
  [status |-> 500, body |-> [error |-> "Internal server error"]]

\* send a response from inside the try block of the search handler; the
\* finally block releases the connection
SearchRespond(s, r, reply) ==
  /\ req' = [req EXCEPT ![s] =
       ClearLocals([r EXCEPT !.pc = "done", !.conn = FALSE,
                             !.status = reply.status, !.body = reply.body])]
  /\ poolFree' = poolFree + 1

\* continue the fallback scan from loop position p
FallbackGoto(s, r, p) ==
  IF p.pc = "end"
  THEN SearchRespond(s, r, SearchReply(r.word, r.results))
  ELSE /\ req' = [req EXCEPT ![s] =
            [r EXCEPT !.pc = IF p.pc = "tables" THEN "fb_tables" ELSE "fb_describe",
                      !.di = p.di, !.ti = p.ti]]
       /\ UNCHANGED poolFree

\* the fallback block without its guard results.length === 0
AfterCandidatesUnguarded(s, r) ==
  /\ req' = [req EXCEPT ![s] = [r EXCEPT !.pc = "fb_databases", !.fallback = TRUE]]
  /\ UNCHANGED poolFree

\* the candidate loop is over: fall back when nothing was found, else reply
AfterCandidates(s, r) ==
  IF Len(r.results) = 0
  THEN /\ req' = [req EXCEPT ![s] = [r EXCEPT !.pc = "fb_databases",
                                              !.fallback = TRUE]]
       /\ UNCHANGED poolFree
  ELSE SearchRespond(s, r, SearchReply(r.word, r.results))

\* a request arrives: the word is read and validated
SearchArrive(s) ==
  /\ listening
  /\ req[s].pc = "idle"
  /\ \E raw \in RawWords :
       LET word == QueryWord(raw)
           r == [IdleRequest EXCEPT !.kind = "search", !.raw = raw, !.word = word]
       IN  req' = [req EXCEPT ![s] =
             IF word = <<>>
             THEN [r EXCEPT !.pc = "done", !.status = 400,
                    !.body = [error |-> "Missing required query parameter: word"]]
             ELSE [r EXCEPT !.pc = "acquire"]]
  /\ UNCHANGED <<server, env, faultsLeft, poolFree, inspectionSummary,
                 listening, startup>>

\* results of another request left in a result list shared by all requests
SharedResults(s) ==
  LET answered == {t \in Slots \ {s} : req[t].kind = "search" /\ req[t].status = 200}
  IN  IF answered = {} THEN <<>>
      ELSE req[CHOOSE t \in answered : TRUE].body.results

\* const results = [], a list of the request's own
NewResults(s) == <<>>

\* what becomes of a rejection the handler does not catch is the framework's
\* business: no response is ever sent, or the framework's own error page is
RejectionOutcomes ==
  { [status |-> 0, body |-> [none |-> TRUE]],
    [status |-> 500, body |-> [page |-> DbErrorText]] }

\* const conn = await pool.getConnection(), outside the try block: a
\* rejection is not caught by the handler
SearchAcquire(s) ==
  /\ req[s].kind = "search" /\ req[s].pc = "acquire"
  /\ poolFree > 0
  /\ \E ok \in Outcomes :
       /\ Spend(ok)
       /\ IF ok
          THEN LET r == [req[s] EXCEPT !.conn = TRUE, !.acquired = TRUE,
                                        !.results = NewResults(s)] IN
               IF Len(inspectionSummary.candidates) > 0
               THEN /\ req' = [req EXCEPT ![s] = [r EXCEPT !.pc = "candidate", !.ci = 1]]
                    /\ poolFree' = poolFree - 1
               ELSE /\ req' = [req EXCEPT ![s] =
                         [r EXCEPT !.pc = "fb_databases", !.fallback = TRUE]]
                    /\ poolFree' = poolFree - 1
          ELSE /\ \E out \in RejectionOutcomes :
                    req' = [req EXCEPT ![s] = [@ EXCEPT !.pc = "rejected",
                                                        !.fatal = "pool",
                                                        !.status = out.status,
                                                        !.body = out.body]]
               /\ UNCHANGED poolFree
  /\ UNCHANGED <<server, env, inspectionSummary, listening, startup>>

\* a catch block that starts the result list over
CandidateCatchReset(r) ==
  [r EXCEPT !.failedCands = @ \cup {r.ci}, !.localErrors = @ \cup {"select"},
            !.results = <<>>]

\* catch (e) { console.warn(`Query error on ...`) }: the table is skipped
CandidateCatch(r) ==
  [r EXCEPT !.failedCands = @ \cup {r.ci}, !.localErrors = @ \cup {"select"}]

\* the SELECT of the candidate phase for candidate ci, in its try/catch
SearchCandidate(s) ==
  /\ req[s].kind = "search" /\ req[s].pc = "candidate"
  /\ LET r    == req[s]
         cand == inspectionSummary.candidates[r.ci]
     IN
     \E ok \in Outcomes :
       /\ Spend(ok)
       /\ LET r0 == [r EXCEPT !.candQueries = @ + 1]
              r1 == IF ok
                    THEN [r0 EXCEPT
                           !.results = PushAll(@, CandidateResults(cand,
                              SelectRows(server, cand.db, cand.table, cand.wordCol,
                                         r.word, CandidateLimit)))]
                    ELSE CandidateCatch(r0)
          IN  IF r.ci < Len(inspectionSummary.candidates)
              THEN /\ req' = [req EXCEPT ![s] = [r1 EXCEPT !.ci = r.ci + 1]]
                   /\ UNCHANGED poolFree
              ELSE AfterCandidates(s, r1)
  /\ UNCHANGED <<server, env, inspectionSummary, listening, startup>>

\* fallback: const [dbs] = await conn.query('SHOW DATABASES')
FallbackShowDatabases(s) ==
  /\ req[s].kind = "search" /\ req[s].pc = "fb_databases"
  /\ LET r == [req[s] EXCEPT !.fbQueries = @ + 1] IN
     \E ok \in Outcomes :
       /\ Spend(ok)
       /\ IF ok
          THEN LET dbs == SelectSeq(ShowDatabases(server), NotSystem) IN
               FallbackGoto(s, [r EXCEPT !.dbs = dbs], LoopNext(dbs, 0, <<>>, 0))
          ELSE SearchRespond(s, [r EXCEPT !.fatal = "databases"], SearchFailure)
  /\ UNCHANGED <<server, env, inspectionSummary, listening, startup>>

\* fallback: const [tables] = await conn.query(`SHOW TABLES FROM ...`),
\* outside the per-table try
FallbackShowTables(s) ==
  /\ req[s].kind = "search" /\ req[s].pc = "fb_tables"
  /\ LET r  == [req[s] EXCEPT !.fbQueries = @ + 1]
         db == r.dbs[r.di]
     IN
     \E ok \in TableListOutcomes(db) :
       /\ Spend(ok \/ ~DatabaseExists(server, db))
       /\ IF ok
          THEN LET tables == ShowTables(server, db) IN
               FallbackGoto(s, [r EXCEPT !.tables = tables],
                            LoopNext(r.dbs, r.di, tables, 0))
          ELSE SearchRespond(s, [r EXCEPT !.fatal = "tables"], SearchFailure)
  /\ UNCHANGED <<server, env, inspectionSummary, listening, startup>>

\* the fallback filtering tables the way the inspection does
PossibleWordColStrict(cols) ==
  IF IsCandidate(cols) THEN FindFirst(WORD_COLUMNS, cols) ELSE Undefined

\* const possibleWordCol = WORD_COLUMNS.find((c) => cols.includes(c))
PossibleWordCol(cols) == FindFirst(WORD_COLUMNS, cols)

\* fallback: DESCRIBE in the per-table try; a table without a word column is
\* passed over
FallbackDescribe(s) ==
  /\ req[s].kind = "search" /\ req[s].pc = "fb_describe"
  /\ LET r     == [req[s] EXCEPT !.fbQueries = @ + 1]
         db    == r.dbs[r.di]
         table == r.tables[r.ti]
         next  == LoopNext(r.dbs, r.di, r.tables, r.ti)
     IN
     \E ok \in Outcomes :
       /\ Spend(ok)
       /\ IF ok
          THEN LET cols == LowerCols(Describe(server, db, table))
                   possibleWordCol == PossibleWordCol(cols)
               IN  IF possibleWordCol = Undefined
                   THEN FallbackGoto(s, r, next)
                   ELSE /\ req' = [req EXCEPT ![s] =
                             [r EXCEPT !.pc = "fb_select", !.wcol = possibleWordCol]]
                        /\ UNCHANGED poolFree
          ELSE FallbackGoto(s, [r EXCEPT !.localErrors = @ \cup {"describe"}], next)
  /\ UNCHANGED <<server, env, inspectionSummary, listening, startup>>

\* a fallback SELECT that also caches the table it matched as a candidate
FallbackSelectCaching(s) ==
  /\ req[s].kind = "search" /\ req[s].pc = "fb_select"
  /\ LET r     == [req[s] EXCEPT !.fbQueries = @ + 1]
         db    == r.dbs[r.di]
         table == r.tables[r.ti]
         next  == LoopNext(r.dbs, r.di, r.tables, r.ti)
         rows  == SelectRows(server, db, table, r.wcol, r.word, FallbackLimit)
     IN
     \E ok \in Outcomes :
       /\ Spend(ok)
       /\ IF ok
          THEN /\ FallbackGoto(s,
                    [r EXCEPT !.selected = @ \cup {<<db, table>>},
                              !.results = PushAll(@, FallbackResults(db, table,
                                                        r.wcol, rows))],
                    next)
               /\ inspectionSummary' =
                    IF rows = <<>> THEN inspectionSummary
                    ELSE [inspectionSummary EXCEPT !.candidates =
                            Append(@, [db |-> db, table |-> table,
                                       wordCol |-> r.wcol,
                                       defCols |-> <<>>, exCols |-> <<>>,
                                       cols |-> <<r.wcol>>])]
          ELSE /\ FallbackGoto(s, [r EXCEPT !.localErrors = @ \cup {"select"}], next)
               /\ UNCHANGED inspectionSummary
  /\ UNCHANGED <<server, env, listening, startup>>

\* fallback: the SELECT in the per-table try
FallbackSelect(s) ==
  /\ req[s].kind = "search" /\ req[s].pc = "fb_select"
  /\ LET r     == [req[s] EXCEPT !.fbQueries = @ + 1]
         db    == r.dbs[r.di]
         table == r.tables[r.ti]
         next  == LoopNext(r.dbs, r.di, r.tables, r.ti)
     IN
     \E ok \in Outcomes :
       /\ Spend(ok)
       /\ IF ok
          THEN FallbackGoto(s,
                 [r EXCEPT !.selected = @ \cup {<<db, table>>},
                           !.results = PushAll(@, FallbackResults(db, table, r.wcol,
                              SelectRows(server, db, table, r.wcol, r.word,
                                         FallbackLimit)))],
                 next)
          ELSE FallbackGoto(s, [r EXCEPT !.localErrors = @ \cup {"select"}], next)
  /\ UNCHANGED <<server, env, inspectionSummary, listening, startup>>

\* ------------------------------------------------------------- /api/health
HealthArrive(s) ==
  /\ listening
  /\ req[s].pc = "idle"
  /\ req' = [req EXCEPT ![s] = [IdleRequest EXCEPT !.kind = "health",
                                                   !.pc = "acquire"]]
  /\ UNCHANGED <<server, env, faultsLeft, poolFree, inspectionSummary,
                 listening, startup>>

\* a catch block that forgets res.status(500)
HealthFailureNoStatus(message) ==
  [status |-> 200, body |-> [ok |-> FALSE, error |-> message]]

\* the response of the catch block of the health handler
HealthFailure(message) ==
  [status |-> 500, body |-> [ok |-> FALSE, error |-> message]]

\* const conn = await pool.getConnection(), inside the try block
HealthAcquire(s) ==
  /\ req[s].kind = "health" /\ req[s].pc = "acquire"
  /\ poolFree > 0
  /\ \E ok \in Outcomes :
       /\ Spend(ok)
       /\ IF ok
          THEN /\ req' = [req EXCEPT ![s] = [@ EXCEPT !.pc = "query", !.conn = TRUE,
                                                      !.acquired = TRUE]]
               /\ poolFree' = poolFree - 1
          ELSE /\ req' = [req EXCEPT ![s] =
                    [@ EXCEPT !.pc = "done", !.fatal = "pool",
                              !.status = HealthFailure(DbErrorText).status,
                              !.body = HealthFailure(DbErrorText).body]]
               /\ UNCHANGED poolFree
  /\ UNCHANGED <<server, env, inspectionSummary, listening, startup>>

\* await conn.query('SELECT 1'); conn.release(); res.json({ ok: true });
\* when the query throws, the release is not reached
HealthQuery(s) ==
  /\ req[s].kind = "health" /\ req[s].pc = "query"
  /\ \E ok \in Outcomes :
       /\ Spend(ok)
       /\ IF ok
          THEN /\ req' = [req EXCEPT ![s] =
                    [@ EXCEPT !.pc = "done", !.conn = FALSE,
                              !.status = 200, !.body = [ok |-> TRUE]]]
               /\ poolFree' = poolFree + 1
          ELSE /\ req' = [req EXCEPT ![s] =
                    [@ EXCEPT !.pc = "done", !.fatal = "query",
                              !.status = HealthFailure(DbErrorText).status,
                              !.body = HealthFailure(DbErrorText).body]]
               /\ UNCHANGED poolFree
  /\ UNCHANGED <<server, env, inspectionSummary, listening, startup>>

\* the exchange is over; the slot can take another request.  A connection
\* the handler did not release stays checked out of the pool
Forget(s) ==
  /\ req[s].pc \in {"done", "rejected"}
  /\ req' = [req EXCEPT ![s] = IdleRequest]
  /\ UNCHANGED <<server, env, faultsLeft, poolFree, inspectionSummary,
                 listening, startup>>

RequestNext ==
  \E s \in Slots :
    \/ SearchArrive(s)
    \/ SearchAcquire(s)
    \/ SearchCandidate(s)
    \/ FallbackShowDatabases(s)
    \/ FallbackShowTables(s)
    \/ FallbackDescribe(s)
    \/ FallbackSelect(s)
    \/ HealthArrive(s)
    \/ HealthAcquire(s)
    \/ HealthQuery(s)
    \/ Forget(s)

Next == StartupNext \/ RequestNext

Spec == Init /\ [][Next]_vars

\* the startup sequence takes its next step whenever it has one: each await
\* of the startup function is settled by the driver
LiveSpec == Init /\ [][Next]_vars /\ WF_vars(StartupNext)

\* a server that may fail often enough to drain the pool
InitPool ==
  /\ InitWith(PoolFaults)
  /\ server = SmallServer
  /\ env = Env("h", "u", "")

SpecPool == InitPool /\ [][Next]_vars

\* --------------------------------------------------------------- properties
\* the word parameter is absent, empty or made of spaces only
IsBlank(raw) == raw = Undefined \/ \A i \in 1..Len(raw) : raw[i] = " "

Candidates == inspectionSummary.candidates

\* the search handler of slot s has sent its response
SearchDone(s) == req[s].kind = "search" /\ req[s].pc = "done"

\* the tables of the non-system schemas, in catalog enumeration order
RECURSIVE TablesInOrder(_)
TablesInOrder(dbs) ==
  IF dbs = <<>> THEN <<>>
  ELSE (IF NotSystem(Head(dbs))
        THEN [i \in 1..Len(server.tables[Head(dbs)]) |->
                <<Head(dbs), server.tables[Head(dbs)][i]>>]
        ELSE <<>>) \o TablesInOrder(Tail(dbs))

\* the rows candidate i holds for a word, as results
CandidateMatches(i, word) ==
  LET cand == Candidates[i] IN
  CandidateResults(cand, SelectRows(server, cand.db, cand.table, cand.wordCol,
                                    word, CandidateLimit))

\* the rows of the first n candidates whose SELECT did not throw, in
\* candidate order then row order
RECURSIVE CandidatePhaseRows(_, _)
CandidatePhaseRows(r, n) ==
  IF n = 0 THEN <<>>
  ELSE CandidatePhaseRows(r, n - 1)
         \o (IF n \in r.failedCands THEN <<>> ELSE CandidateMatches(n, r.word))

\* the rows of the tables the fallback phase selected from, in catalog order
\* then row order
RECURSIVE FallbackPhaseRows(_, _)
FallbackPhaseRows(r, tabs) ==
  IF tabs = <<>> THEN <<>>
  ELSE LET db == Head(tabs)[1]
           table == Head(tabs)[2]
           col == FindFirst(WORD_COLUMNS, LowerCols(server.fields[Head(tabs)]))
       IN  (IF Head(tabs) \in r.selected
            THEN FallbackResults(db, table, col,
                   SelectRows(server, db, table, col, r.word, FallbackLimit))
            ELSE <<>>) \o FallbackPhaseRows(r, Tail(tabs))

\* the aggregated result sequence of a request, in discovery order
Aggregated(r) ==
  CandidatePhaseRows(r, Len(Candidates)) \o FallbackPhaseRows(r, TablesInOrder(server.dbs))

NoWordColumnAnywhere ==
  \A i \in 1..Len(TablesInOrder(server.dbs)) :
    ~HasAny(WORD_COLUMNS, LowerCols(server.fields[TablesInOrder(server.dbs)[i]]))

\* C1: a search for a non-blank word that raises no uncaught error answers
\* 404 {word, results: [], message: 'Not found'} exactly when the aggregated
\* sequence is empty, and otherwise 200 with count = length of results and
\* results = the aggregated sequence in discovery order, nothing removed or
\* moved; with no word-vocabulary column anywhere the answer is 404
SearchResponseContract ==
  \A s \in Slots :
    LET r == req[s]
        agg == Aggregated(r)
    IN  (SearchDone(s) /\ ~IsBlank(r.raw) /\ r.fatal = "") =>
          /\ r.status \in {200, 404}
          /\ (r.status = 404) <=> (agg = <<>>)
          /\ r.status = 404 =>
               r.body = [word |-> r.word, results |-> <<>>, message |-> "Not found"]
          /\ r.status = 200 =>
               r.body = [word |-> r.word, count |-> Len(agg), results |-> agg]
          /\ NoWordColumnAnywhere => r.status = 404

\* a 200 answer that aggregates three rows of two tables, next to a 404
SearchResponseWitness ==
  \E s, t \in Slots :
    /\ SearchDone(s) /\ req[s].status = 200 /\ req[s].fatal = ""
    /\ req[s].body.count = 3
    /\ req[s].body.results[1].source # req[s].body.results[3].source
    /\ SearchDone(t) /\ req[t].status = 404 /\ ~IsBlank(req[t].raw)

\* ---------------------------------------------------------------------- C2
\* some candidate among the first n, whose SELECT did not throw, returned rows
SomeCandidateReturnedRows(r, n) ==
  \E i \in (1..n) \ r.failedCands : CandidateMatches(i, r.word) # <<>>

\* C2: the fallback phase is entered if and only if the candidate phase has
\* run over all cached candidates and accumulated no result; when a candidate
\* returned a row, no fallback query is issued for the request
FallbackOnlyAfterEmptyCandidatePhase ==
  \A s \in Slots :
    LET r == req[s] IN
    r.kind = "search" =>
      /\ r.fallback <=> /\ r.acquired
                        /\ r.candQueries = Len(Candidates)
                        /\ ~SomeCandidateReturnedRows(r, Len(Candidates))
      /\ r.pc \in {"fb_databases", "fb_tables", "fb_describe", "fb_select"} => r.fallback
      /\ r.fbQueries > 0 => r.fallback
      /\ SomeCandidateReturnedRows(r, r.candQueries) =>
           r.fbQueries = 0 /\ r.selected = {}

\* one request answered from the candidates without fallback, another that
\* fell back after querying candidates that held nothing
FallbackOnlyWitness ==
  \E s, t \in Slots :
    /\ SearchDone(s) /\ req[s].status = 200 /\ ~req[s].fallback
    /\ req[s].candQueries = 2
    /\ req[t].kind = "search" /\ req[t].fallback
    /\ req[t].candQueries > 0 /\ req[t].fbQueries > 0

\* ---------------------------------------------------------------------- C3
\* table tab has a row whose value in the column named col equals the word,
\* ignoring case
HoldsWord(tab, col, word) ==
  \E i \in 1..Len(server.rows[tab]) :
    \E f \in DOMAIN server.rows[tab][i] :
      /\ ToLowerCase(f) = col
      /\ server.rows[tab][i][f] # Null
      /\ ToLowerCase(server.rows[tab][i][f]) = ToLowerCase(word)

\* the response is 200 and has a result whose source is tab
AnswersFrom(r, tab) ==
  /\ r.status = 200
  /\ \E k \in 1..Len(r.body.results) : r.body.results[k].source = tab

\* a search that got its connection and met no failing query, after an
\* inspection that left no candidate
CleanSearchWithoutCandidates(s) ==
  /\ SearchDone(s) /\ ~IsBlank(req[s].raw)
  /\ Candidates = <<>>
  /\ req[s].fatal = "" /\ req[s].localErrors = {}

CandidatePhaseToleratesFailures ==
  \A s \in Slots :
    LET r == req[s] IN
    (r.kind = "search" /\ r.acquired) =>
      /\ r.pc = "candidate" =>
           /\ r.candQueries = r.ci - 1
           /\ r.results = CandidatePhaseRows(r, r.ci - 1)
      /\ r.pc # "candidate" => r.candQueries = Len(Candidates)
      /\ (r.pc = "done" /\ SomeCandidateReturnedRows(r, Len(Candidates))) =>
           /\ r.status = 200
           /\ r.body.results = CandidatePhaseRows(r, Len(Candidates))

\* the first candidate threw, the second answered
CandidatePhaseWitness ==
  \E s \in Slots :
    /\ SearchDone(s) /\ req[s].failedCands = {1}
    /\ req[s].status = 200 /\ Len(req[s].body.results) > 0
    /\ Len(Candidates) = 2

\* ---------------------------------------------------------------------- C5
\* C5: a search whose word is absent, empty or blank is answered 400 with the
\* fixed message at once: it never holds or acquires a connection and issues
\* no query, whatever the pool holds; no other search is answered 400
BlankWordRejected ==
  \A s \in Slots :
    LET r == req[s] IN
    r.kind = "search" =>
      /\ IsBlank(r.raw) =>
           /\ r.pc = "done" /\ r.status = 400
           /\ r.body = [error |-> "Missing required query parameter: word"]
           /\ ~r.acquired /\ ~r.conn
           /\ r.candQueries = 0 /\ r.fbQueries = 0
      /\ r.status = 400 => IsBlank(r.raw)

\* a blank search answered 400 while the pool has no free connection
BlankWordWitness ==
  \E s \in Slots :
    /\ SearchDone(s) /\ req[s].status = 400
    /\ req[s].raw = <<" ", " ">>
    /\ poolFree = 0

\* ---------------------------------------------------------------------- C6
HealthDone(s) == req[s].kind = "health" /\ req[s].pc = "done"

\* C6 as stated: 500 ok:false exactly when no connection could be acquired,
\* 200 ok:true otherwise
HealthFailsOnlyOnAcquire ==
  \A s \in Slots :
    HealthDone(s) =>
      IF req[s].fatal = "pool"
      THEN req[s].status = 500 /\ req[s].body.ok = FALSE
      ELSE req[s].status = 200 /\ req[s].body = [ok |-> TRUE]

\* C6, amended: 500 {ok: false, error} when the connection cannot be acquired
\* or the liveness query fails, 200 {ok: true} otherwise
HealthReportsFailure ==
  \A s \in Slots :
    HealthDone(s) =>
      IF req[s].fatal \in {"pool", "query"}
      THEN req[s].status = 500 /\ req[s].body = [ok |-> FALSE, error |-> DbErrorText]
      ELSE req[s].status = 200 /\ req[s].body = [ok |-> TRUE]

\* one health check that could not get a connection, one that succeeded
HealthWitness ==
  \E s, t \in Slots :
    /\ HealthDone(s) /\ req[s].fatal = "pool" /\ req[s].status = 500
    /\ HealthDone(t) /\ req[t].fatal = "" /\ req[t].status = 200

\* ---------------------------------------------------------------------- C7
\* C7: when a step of the startup inspection has thrown, the process goes on
\* with an empty candidate list
InspectionFailsOpenEmpty ==
  (startup.pc = "listening" /\ startup.caught # "") => Candidates = <<>>

\* ---------------------------------------------------------------------- C8
Configured == env.DB_HOST # "" /\ env.DB_USER # ""

\* the listener is up only once the single startup attempt is over, no
\* handler runs before, and an unconfigured process never listens
StartupOrderingState ==
  /\ startup.attempts <= 1 /\ startup.inspectCalls <= 1
  /\ listening => /\ Configured
                  /\ startup.pc = "listening"
                  /\ startup.attempts = 1
  /\ (\E s \in Slots : req[s].pc # "idle") => listening
  /\ ~Configured => startup.pc \in {"config", "exited"} /\ ~listening

\* C8: with DB_HOST and DB_USER set, the startup attempt (connect, ping,
\* inspectSchema) is made once, the listener starts only after it has ended,
\* succeeded or thrown, and it always starts; candidates are appended only
\* before the listener is up; without DB_HOST or DB_USER the process exits
\* and never listens
StartupOrdering ==
  /\ []StartupOrderingState
  /\ [][Candidates' # Candidates => ~listening]_vars
  /\ (Configured ~> listening)
  /\ (~Configured ~> startup.pc = "exited")

\* the listener is up after an inspection that threw
StartupOrderingWitness ==
  /\ listening /\ startup.inspectCalls = 1
  /\ startup.caught # "" /\ startup.failedStep = "tables"

\* ---------------------------------------------------------------------- C9
\* C9: a search whose only failures were local to one table or one database
\* (a DESCRIBE, a SELECT, a table listing) is never answered 500
LocalErrorsNeverEscalate ==
  \A s \in Slots :
    (SearchDone(s) /\ req[s].fatal \notin {"pool", "databases"}) =>
      req[s].status # 500

\* --------------------------------------------------------------------- C10
SubsetOfCols(seq, cols) == \A i \in 1..Len(seq) : Includes(cols, seq[i])

\* C10: every cached candidate has its word column among its columns and in
\* the word vocabulary, its definition and example columns among its columns,
\* and at least one definition or example column
CandidateColumnsConsistent ==
  \A i \in 1..Len(Candidates) :
    LET c == Candidates[i] IN
    /\ Includes(c.cols, c.wordCol)
    /\ Includes(WORD_COLUMNS, c.wordCol)
    /\ SubsetOfCols(c.defCols, c.cols)
    /\ SubsetOfCols(c.exCols, c.cols)
    /\ ~(c.defCols = <<>> /\ c.exCols = <<>>)

\* two candidates are cached, one of a table with mixed-case column names
CandidateColumnsWitness ==
  /\ Len(Candidates) = 2
  /\ Candidates[1].table = "words"
  /\ Candidates[1].cols # server.fields[<<"lexdb", "words">>]
  /\ Candidates[2].exCols = <<>>

\* --------------------------------------------------------------------- C11
\* the tables of the given databases, in catalog enumeration order
RECURSIVE TablesOf(_)
TablesOf(dbs) ==
  IF dbs = <<>> THEN <<>>
  ELSE (IF DatabaseExists(server, Head(dbs))
        THEN [i \in 1..Len(server.tables[Head(dbs)]) |->
                <<Head(dbs), server.tables[Head(dbs)][i]>>]
        ELSE <<>>) \o TablesOf(Tail(dbs))

SeqSet(seq) == {seq[i] : i \in 1..Len(seq)}

\* the lower-cased column set of a table
ColumnSet(tab) == {ToLowerCase(f) : f \in SeqSet(server.fields[tab])}

\* the column set meets the word vocabulary, and the definition or the
\* example vocabulary
Qualifies(tab) ==
  /\ ColumnSet(tab) \cap SeqSet(WORD_COLUMNS) # {}
  /\ \/ ColumnSet(tab) \cap SeqSet(DEF_COLUMNS) # {}
     \/ ColumnSet(tab) \cap SeqSet(EX_COLUMNS) # {}

\* the first entry of the word vocabulary among the columns of a table
FirstWordEntry(tab) ==
  WORD_COLUMNS[CHOOSE i \in 1..Len(WORD_COLUMNS) :
                 /\ WORD_COLUMNS[i] \in ColumnSet(tab)
                 /\ \A j \in 1..(i - 1) : WORD_COLUMNS[j] \notin ColumnSet(tab)]

NonSystemDatabases == SelectSeq(server.dbs, NotSystem)

\* the inspected databases as C11 states them
InspectedAsStated ==
  IF env.DB_NAME # "" THEN <<env.DB_NAME>> ELSE NonSystemDatabases

\* the inspected databases: a DB_NAME that names a system schema is dropped
InspectedDatabases ==
  IF env.DB_NAME = "" THEN NonSystemDatabases
  ELSE IF env.DB_NAME \in SystemDatabases THEN <<>> ELSE <<env.DB_NAME>>

\* the qualifying tables of the databases whose DESCRIBE did not fail
ExpectedCandidateTables(dbs) ==
  LET Kept(tab) == tab \notin startup.failedDescribes /\ Qualifies(tab)
  IN  SelectSeq(TablesOf(dbs), Kept)

\* the candidate list names exactly the tables exp, in order, each with the
\* first word-vocabulary entry present as wordCol
CandidatesAre(exp) ==
  /\ Len(Candidates) = Len(exp)
  /\ \A i \in 1..Len(exp) :
       /\ <<Candidates[i].db, Candidates[i].table>> = exp[i]
       /\ Candidates[i].wordCol = FirstWordEntry(exp[i])

\* inspectSchema ran to its end: every listing succeeded
InspectionCompleted ==
  startup.pc = "listening" /\ startup.inspectCalls = 1 /\ startup.caught = ""

\* C11 as stated: the inspected databases are DB_NAME alone when configured
CandidatesExactAsStated ==
  InspectionCompleted => CandidatesAre(ExpectedCandidateTables(InspectedAsStated))

\* C11, amended: after an inspection whose listings all succeeded, the
\* candidates are exactly the qualifying tables, with a successful DESCRIBE,
\* of the inspected databases (DB_NAME alone when configured and not a system
\* schema, none when it is a system schema, otherwise every non-system
\* database), once each, in catalog order, wordCol the first word-vocabulary
\* entry present; a failed DESCRIBE removes only its own table
CandidatesExact ==
  InspectionCompleted => CandidatesAre(ExpectedCandidateTables(InspectedDatabases))

\* DESCRIBE of lexdb.words failed and appdb.glossary is still a candidate
CandidatesExactWitness ==
  /\ InspectionCompleted
  /\ startup.failedDescribes = {<<"lexdb", "words">>}
  /\ Len(Candidates) = 1 /\ Candidates[1].table = "glossary"

\* --------------------------------------------------------------------- C12
\* the value a row holds in the column an identifier names, ignoring case
ValueIn(row, col) == row[CHOOSE f \in DOMAIN row : ToLowerCase(f) = col]

\* the non-empty, non-null values of a row in the named columns, in order
ValuesIn(row, cols) ==
  SelectSeq([i \in 1..Len(cols) |-> ValueIn(row, cols[i])], Truthy)

\* the candidate entry of a table
CandidateFor(tab) ==
  Candidates[CHOOSE i \in 1..Len(Candidates) :
               <<Candidates[i].db, Candidates[i].table>> = tab]

\* the search of slot s was answered from the candidate phase
AnsweredByCandidates(s) ==
  SearchDone(s) /\ req[s].status = 200 /\ ~req[s].fallback

\* C12: whatever the letter case of a candidate table's column names, every
\* result of the candidate phase has as word the row's value in the word
\* column (equal to the query word ignoring case), as definitions the
\* non-empty, non-null values of the row in the recorded definition columns,
\* and as examples those in the recorded example columns
CandidateRowsMapped ==
  \A s \in Slots :
    AnsweredByCandidates(s) =>
      \A k \in 1..Len(req[s].body.results) :
        LET res == req[s].body.results[k]
            cand == CandidateFor(res.source)
        IN  /\ res.word = ValueIn(res.row, cand.wordCol)
            /\ ToLowerCase(res.word) = ToLowerCase(req[s].word)
            /\ res.definitions = ValuesIn(res.row, cand.defCols)
            /\ res.examples = ValuesIn(res.row, cand.exCols)

\* the same statement for tables whose columns are stored in lower case
CandidateRowsMappedLowerCase ==
  \A s \in Slots :
    AnsweredByCandidates(s) =>
      \A k \in 1..Len(req[s].body.results) :
        LET res == req[s].body.results[k]
            cand == CandidateFor(res.source)
        IN  (\A f \in DOMAIN res.row : ToLowerCase(f) = f) =>
              /\ res.word = ValueIn(res.row, cand.wordCol)
              /\ ToLowerCase(res.word) = ToLowerCase(req[s].word)
              /\ res.definitions = ValuesIn(res.row, cand.defCols)
              /\ res.examples = ValuesIn(res.row, cand.exCols)

\* --------------------------------------------------------------------- C13
\* the search of slot s was answered and none of its queries failed
CleanSearch(s) ==
  SearchDone(s) /\ req[s].fatal = "" /\ req[s].localErrors = {}

\* C13: against the unchanged database and with no query errors, two
\* searches for the same word, however they interleave with each other and
\* with other requests, are answered with the same status and the same
\* results in the same order
SearchIdempotent ==
  \A s, t \in Slots :
    (CleanSearch(s) /\ CleanSearch(t) /\ req[s].raw = req[t].raw) =>
      /\ req[s].status = req[t].status
      /\ req[s].body = req[t].body

\* two searches for the same word both answered 200 with two results
SearchIdempotentWitness ==
  \E s, t \in Slots :
    /\ s # t /\ CleanSearch(s) /\ CleanSearch(t)
    /\ req[s].raw = req[t].raw
    /\ req[s].status = 200 /\ req[t].status = 200
    /\ Len(req[s].body.results) = 2

\* --------------------------------------------------------------------- C14
\* the search handler of slot s has ended after an internal failure
SearchFailed(s) ==
  /\ req[s].kind = "search"
  /\ req[s].pc \in {"done", "rejected"}
  /\ req[s].fatal # ""

GenericFailure(r) ==
  r.status = 500 /\ r.body = [error |-> "Internal server error"]

\* C14: a search for a non-blank word that meets an internal failure (no
\* pool connection, or a failing SHOW DATABASES / SHOW TABLES of the
\* fallback phase) is answered 500 {error: 'Internal server error'}, and no
\* database error text is in the response
InternalFailureAnswered ==
  \A s \in Slots : SearchFailed(s) => GenericFailure(req[s])

\* the same statement for failures met after the connection was acquired
InternalFailureAnsweredInTry ==
  \A s \in Slots :
    (SearchFailed(s) /\ req[s].acquired) => GenericFailure(req[s])

\* --------------------------------------------------------------------- C15
\* C15: once the HTTP listener has started, no step changes
\* inspectionSummary: every search and health request, whether it succeeds,
\* answers 404, runs the fallback scan or fails, leaves databases and
\* candidates as they were, and tables found by the fallback phase are not
\* added to the candidates
InspectionSummaryFrozen ==
  [][listening => inspectionSummary' = inspectionSummary]_vars

\* a search answered 200 by the fallback phase from a table that is not a
\* candidate
InspectionSummaryFrozenWitness ==
  /\ listening
  /\ \E s \in Slots :
       /\ SearchDone(s) /\ req[s].status = 200 /\ req[s].fallback
       /\ \E k \in 1..Len(req[s].body.results) :
            \A i \in 1..Len(Candidates) :
              <<Candidates[i].db, Candidates[i].table>>
                # req[s].body.results[k].source

\* --------------------------------------------------------------------- C16
\* neither the startup sequence nor any request handler is running
NoOperationInFlight ==
  /\ startup.pc \in {"config", "exited", "listening"}
  /\ \A s \in Slots : req[s].pc \in {"idle", "done", "rejected"}

\* C16: every connection acquired by the startup sequence, inspectSchema,
\* the search handler or the health handler is released by the time the
\* operation ends, on every path: whenever no operation is in flight all 5
\* pool connections are free
ConnectionsReleased ==
  NoOperationInFlight => poolFree = ConnectionLimit

====
